---- MODULE Spec2Model ----
(***************************************************************************)
(* Model of the web console API of web-handlers.go: the JWT gate           *)
(* (isJWTReqAuthenticated), the JSON-RPC methods of webAPI, the two raw    *)
(* HTTP handlers Upload and Download, and writeWebErrorResponse.           *)
(*                                                                         *)
(* Every request is a process that walks through its handler.  A handler   *)
(* is cut into steps exactly at its accesses to shared state: the read of  *)
(* serverConfig by initJWT, the writes SetCredential and Save, and every   *)
(* call of the storage backend web.Filesystem.  What lies between two      *)
(* such accesses is local to the request and belongs to one step.          *)
(***************************************************************************)
EXTENDS Integers, Sequences, FiniteSets, TLC

\* ------------------------------------------------------------- bounds

\* Number of concurrent requests (SpecConc); Spec runs one request at a time.
NumClients == 2
\* The clock runs from 0 to MaxTime.
MaxTime == 2
\* Longest scripted backend listing (number of ListObjects pages).
MaxPages == 2

\* ------------------------------------------------ values of the program

Clients == 1..NumClients

AccessKeys == {"", "a1", "a2"}
SecretKeys == {"", "s1", "s2"}

\* credential{AccessKeyID, SecretAccessKey}
Credential(a, s) == [AccessKeyID |-> a, SecretAccessKey |-> s]
Credentials == [AccessKeyID : AccessKeys, SecretAccessKey : SecretKeys]

\* Lifetime of a token issued by GenerateToken, in clock ticks.
TokenTTL == 1

\* Signing algorithms a token header may declare.  HS* are the
\* jwtgo.SigningMethodHMAC family.
SigningMethodHMAC == {"HS256", "HS512"}
Algs == {"HS512", "RS256", "none"}

\* A token is the header's alg, the subject claim, the exp claim and the key
\* its signature was computed with.  NoToken is the absent/empty token string.
NoToken == [alg |-> "", sub |-> "", key |-> "", exp |-> 0]
\* The tokens a client may present: HMAC-signed ones with any key and expiry,
\* and ones that declare another algorithm and are otherwise in order (a key
\* of the server, an expiry that is never reached).
HMACTokens == [alg : {"HS512"}, sub : {"a1"}, key : SecretKeys \ {""},
               exp : 0..(MaxTime + TokenTTL)]
OtherAlgTokens == [alg : Algs \ SigningMethodHMAC, sub : {"a1"}, key : SecretKeys \ {""},
                   exp : {MaxTime + TokenTTL}]
Tokens == HMACTokens \cup OtherAlgTokens

\* miniobrowser.UIVersion
UIVersion == "ui-1"

\* reservedBucket is the path "/minio"; a path is the sequence of its
\* segments, split at "/".  path.Base(path) is its last segment.
reservedBucket == <<"", "minio">>
PathBase(path) == IF Len(path) = 0 THEN "." ELSE path[Len(path)]

BucketNames == {"minio", "b1", "b2"}
ObjectNames == {"o1", "o2"}
Prefixes == {"d/"}
Markers == {"", "m1"}

\* Messages of RPC errors written by the handlers themselves.
errUnauthorized == "Unauthorized request"
errEmptyAccessKey == "Empty access key not allowed"
errEmptySecretKey == "Empty secret key not allowed"
errInvalidCredentials == "Invalid credentials"
\* errInvalidToken.Error(), the body of the 403 response.
errInvalidToken == "Invalid token"

\* ------------------------------------------------- token verification

\* jwtgo.Parse / jwtgo.ParseFromRequest: a token string parses, the key
\* function hands out the key (keyOK), the HMAC signature verifies under that
\* key, and the exp claim is not in the past.
jwtParse(t, keyOK, secret, clock) ==
    /\ t # NoToken
    /\ keyOK
    /\ t.key = secret
    /\ ~(clock > t.exp)

\* The key function of isJWTReqAuthenticated: only HMAC-signed tokens get a key.
KeyFuncRequest(t) == t.alg \in SigningMethodHMAC

\* Variant: the signature is verified with the key the token itself names.
isJWTReqAuthenticatedOwnKey(t, jwt, clock) ==
    jwtParse(t, KeyFuncRequest(t), t.key, clock)

\* isJWTReqAuthenticated with jwt the credential initJWT has read; jwt is a
\* local of the function and is gone when it returns.
isJWTReqAuthenticated(t, jwt, clock) ==
    jwtParse(t, KeyFuncRequest(t), jwt.SecretAccessKey, clock)

\* Variant: the key function hands out the key whatever the algorithm.
KeyFuncAnyAlg(t) == TRUE

\* The key function of Download, for the token of the query string.
KeyFuncDownload(t) == t.alg \in SigningMethodHMAC

\* The check of Download: e == nil and jwttoken.Valid.
DownloadAuthenticated(t, jwt, clock) ==
    jwtParse(t, KeyFuncDownload(t), jwt.SecretAccessKey, clock)

\* ------------------------------------------------------ collaborators

\* jwt.Authenticate(accessKey, secretKey) against the credential jwt holds.
Authenticate(jwt, accessKey, secretKey) ==
    /\ accessKey = jwt.AccessKeyID
    /\ secretKey = jwt.SecretAccessKey

\* jwt.GenerateToken(accessKey): an HS512 token for the subject, signed with
\* the secret jwt holds, expiring TokenTTL from now.
GenerateToken(jwt, accessKey, clock) ==
    [alg |-> "HS512", sub |-> accessKey, key |-> jwt.SecretAccessKey,
     exp |-> clock + TokenTTL]

\* Error variants of the storage backend (package fs), and one error that is
\* none of them.
FsErrors == {"RootPathFull", "BucketNotFound", "BucketNameInvalid", "BadDigest",
             "IncompleteBody", "ObjectExistsAsPrefix", "ObjectNotFound",
             "ObjectNameInvalid"}
OtherError == "Other"

\* One page of Filesystem.ListObjects: ListObjectsResult, or an error.
ObjectOf(n) == [Name |-> n, ModifiedTime |-> 1, Size |-> 1]
ObjectSeqs == {<<>>} \cup {<<ObjectOf(n)>> : n \in ObjectNames}
                     \cup {<<ObjectOf(nm[1]), ObjectOf(nm[2])>> :
                              nm \in {x \in ObjectNames \X ObjectNames : x[1] # x[2]}}
PrefixSeqs == {<<>>} \cup {<<d>> : d \in Prefixes}
ListObjectsResults ==
    [err : {""}, Objects : ObjectSeqs, Prefixes : PrefixSeqs,
     IsTruncated : BOOLEAN, NextMarker : Markers]
ListObjectsFailure ==
    [err |-> "BucketNotFound", Objects |-> <<>>, Prefixes |-> <<>>,
     IsTruncated |-> FALSE, NextMarker |-> ""]
Pages == ListObjectsResults \cup {ListObjectsFailure}

\* What the backend will answer to the successive ListObjects calls of one
\* request: at most MaxPages pages, the last of them final or an error.
SeqsUpTo(S, n) == UNION {[1..k -> S] : k \in 1..n}
Listings ==
    {l \in SeqsUpTo(Pages, MaxPages) : l[Len(l)].err # "" \/ ~l[Len(l)].IsTruncated}

\* --------------------------------------------------------------- state

VARIABLES
    cred,       \* serverConfig: the active credential, in memory
    saved,      \* serverConfig as last written to disk by Save
    now,        \* the clock
    fsBuckets,  \* backend: the buckets, in the order ListBuckets returns them
    fsObjects,  \* backend: the objects of the bucket the requests work on
    fsListing,  \* backend: the pages ListObjects answers with
    pc,         \* per request: where its handler stands
    method,     \* per request: the handler
    tok,        \* per request: the token it presents
    args,       \* per request: its arguments
    jwt,        \* per request: the credential initJWT has read
    authed,     \* per request: verdict of the token check
    marker,     \* per request: ListObjects' marker
    reply,      \* per request: the reply (the HTTP response for Upload/Download)
    err,        \* per request: message of the error returned, "" if none
    calls,      \* per request: calls made on the collaborators, and the
                \* markers passed to Filesystem.ListObjects
    lastSetAuth, \* history: the latest successful SetAuth (its keys and the
                 \* token it returned), none once another SetAuth has been sent
    credBefore   \* history, per SetAuth request: the active credential when
                 \* the request came in

vars == <<cred, saved, now, fsBuckets, fsObjects, fsListing, pc, method, tok,
          args, jwt, authed, marker, reply, err, calls, lastSetAuth, credBefore>>

config == <<cred, saved>>
backend == <<fsBuckets, fsObjects, fsListing>>

RPCMethods == {"ServerInfo", "DiskInfo", "MakeBucket", "ListBuckets", "ListObjects",
               "RemoveObject", "Login", "GenerateAuth", "SetAuth", "GetAuth"}
HTTPHandlers == {"Upload", "Download"}
Methods == RPCMethods \cup HTTPHandlers

\* Zero values of the argument and reply structures.
NoArgs == [Username |-> "", Password |-> "", AccessKey |-> "", SecretKey |-> "",
           BucketName |-> "", ObjectName |-> ""]
NoReply == [UIVersion |-> "", Info |-> "", Buckets |-> <<>>, Objects |-> <<>>,
            Token |-> NoToken, AccessKey |-> "", SecretKey |-> "",
            Status |-> 0, Body |-> ""]
NoCalls == [fs |-> 0, config |-> 0, jwt |-> 0, markers |-> <<>>]
NoCredential == Credential("", "")
NoSetAuth == [AccessKey |-> "", SecretKey |-> "", Token |-> NoToken]

\* Arguments a client may send with each method.
ArgsOf(m) ==
    CASE m = "Login" ->
           {[NoArgs EXCEPT !.Username = u, !.Password = w] :
               u \in AccessKeys, w \in SecretKeys}
      [] m = "SetAuth" ->
           {[NoArgs EXCEPT !.AccessKey = a, !.SecretKey = s] :
               a \in AccessKeys, s \in SecretKeys}
      [] m = "MakeBucket" ->
           {[NoArgs EXCEPT !.BucketName = "b1"]}
      [] m \in {"RemoveObject", "Upload", "Download"} ->
           {[NoArgs EXCEPT !.BucketName = "b1", !.ObjectName = "o1"]}
      [] m = "ListObjects" -> {[NoArgs EXCEPT !.BucketName = "b1"]}
      [] OTHER -> {NoArgs}

\* Tokens a client may send with each method; Login is sent before the client
\* has any.
TokensOf(m) == IF m = "Login" THEN {NoToken} ELSE Tokens \cup {NoToken}

\* What the backend may hold: the buckets in any order, each stamped with a
\* creation date.
RECURSIVE Stamped(_, _)
Stamped(names, n) ==
    IF names = <<>> THEN <<>>
    ELSE <<[Name |-> Head(names), Created |-> n]>> \o Stamped(Tail(names), n + 1)
BucketLists ==
    {Stamped(l, 1) : l \in {x \in UNION {[1..k -> BucketNames] : k \in 0..Cardinality(BucketNames)} :
                               \A i, j \in 1..Len(x) : x[i] = x[j] => i = j}}

\* The server starts with a credential that is on disk, and no request.
InitServer ==
    /\ cred = Credential("a1", "s1")
    /\ saved = cred
    /\ now = 0
    /\ pc = [p \in Clients |-> "idle"]
    /\ method = [p \in Clients |-> ""]
    /\ tok = [p \in Clients |-> NoToken]
    /\ args = [p \in Clients |-> NoArgs]
    /\ jwt = [p \in Clients |-> NoCredential]
    /\ authed = [p \in Clients |-> "unchecked"]
    /\ marker = [p \in Clients |-> ""]
    /\ reply = [p \in Clients |-> NoReply]
    /\ err = [p \in Clients |-> ""]
    /\ calls = [p \in Clients |-> NoCalls]
    /\ lastSetAuth = NoSetAuth
    /\ credBefore = [p \in Clients |-> NoCredential]

\* A two-page listing: one object and a prefix, then one more object.
DefaultListing ==
    << [err |-> "", Objects |-> <<ObjectOf("o1")>>,
        Prefixes |-> <<"d/">>, IsTruncated |-> TRUE, NextMarker |-> "m1"],
       [err |-> "", Objects |-> <<ObjectOf("o2")>>,
        Prefixes |-> <<>>, IsTruncated |-> FALSE, NextMarker |-> ""] >>

Init ==
    /\ InitServer
    /\ fsBuckets = <<>>
    /\ fsObjects = {}
    /\ fsListing = DefaultListing

\* ------------------------------------------------------ error translation

\* getAPIError: status and description of an API error code.
getAPIError(code) ==
    CASE code = "ErrRootPathFull" -> [HTTPStatusCode |-> 507, Description |-> code]
      [] code = "ErrNoSuchBucket" -> [HTTPStatusCode |-> 404, Description |-> code]
      [] code = "ErrInvalidBucketName" -> [HTTPStatusCode |-> 400, Description |-> code]
      [] code = "ErrBadDigest" -> [HTTPStatusCode |-> 400, Description |-> code]
      [] code = "ErrIncompleteBody" -> [HTTPStatusCode |-> 400, Description |-> code]
      [] code = "ErrObjectExistsAsPrefix" -> [HTTPStatusCode |-> 409, Description |-> code]
      [] code = "ErrNoSuchKey" -> [HTTPStatusCode |-> 404, Description |-> code]
      [] OTHER -> [HTTPStatusCode |-> 500, Description |-> "ErrInternalError"]

\* Variant: the switch has no case for fs.ObjectNameInvalid.
APIErrorCodeNoNameInvalid(e) ==
    CASE e = "RootPathFull" -> "ErrRootPathFull"
      [] e = "BucketNotFound" -> "ErrNoSuchBucket"
      [] e = "BucketNameInvalid" -> "ErrInvalidBucketName"
      [] e = "BadDigest" -> "ErrBadDigest"
      [] e = "IncompleteBody" -> "ErrIncompleteBody"
      [] e = "ObjectExistsAsPrefix" -> "ErrObjectExistsAsPrefix"
      [] e = "ObjectNotFound" -> "ErrNoSuchKey"
      [] OTHER -> "ErrInternalError"

\* The switch of writeWebErrorResponse: the API error code of a backend error.
APIErrorCode(e) ==
    CASE e = "RootPathFull" -> "ErrRootPathFull"
      [] e = "BucketNotFound" -> "ErrNoSuchBucket"
      [] e = "BucketNameInvalid" -> "ErrInvalidBucketName"
      [] e = "BadDigest" -> "ErrBadDigest"
      [] e = "IncompleteBody" -> "ErrIncompleteBody"
      [] e = "ObjectExistsAsPrefix" -> "ErrObjectExistsAsPrefix"
      [] e = "ObjectNotFound" -> "ErrNoSuchKey"
      [] e = "ObjectNameInvalid" -> "ErrNoSuchKey"
      [] OTHER -> "ErrInternalError"

\* Variant: errInvalidToken goes through the switch like any other error.
writeWebErrorResponseNoEarlyCase(w, e) ==
    [w EXCEPT !.Status = getAPIError(APIErrorCode(e)).HTTPStatusCode,
              !.Body = getAPIError(APIErrorCode(e)).Description]

\* writeWebErrorResponse(w, err): the response with status and body written.
writeWebErrorResponse(w, e) ==
    IF e = errInvalidToken
    THEN [w EXCEPT !.Status = 403, !.Body = errInvalidToken]
    ELSE [w EXCEPT !.Status = getAPIError(APIErrorCode(e)).HTTPStatusCode,
                   !.Body = getAPIError(APIErrorCode(e)).Description]

\* ------------------------------------------------------------ requests

\* A client sends a request: method m with token t and arguments a.
Request(p, m, t, a) ==
    /\ pc[p] = "idle"
    /\ pc' = [pc EXCEPT ![p] = "initJWT"]
    /\ method' = [method EXCEPT ![p] = m]
    /\ tok' = [tok EXCEPT ![p] = t]
    /\ args' = [args EXCEPT ![p] = a]
    /\ jwt' = [jwt EXCEPT ![p] = NoCredential]
    /\ authed' = [authed EXCEPT ![p] = "unchecked"]
    /\ marker' = [marker EXCEPT ![p] = ""]
    /\ reply' = [reply EXCEPT ![p] = NoReply]
    /\ err' = [err EXCEPT ![p] = ""]
    /\ calls' = [calls EXCEPT ![p] = NoCalls]
    /\ lastSetAuth' = IF m = "SetAuth" THEN NoSetAuth ELSE lastSetAuth
    /\ credBefore' = [credBefore EXCEPT ![p] = IF m = "SetAuth" THEN cred ELSE NoCredential]
    /\ UNCHANGED <<cred, saved, now, backend>>

\* The reply (or the error) goes back to the client and the request is over.
Respond(p) ==
    /\ pc[p] = "done"
    /\ pc' = [pc EXCEPT ![p] = "idle"]
    /\ method' = [method EXCEPT ![p] = ""]
    /\ tok' = [tok EXCEPT ![p] = NoToken]
    /\ args' = [args EXCEPT ![p] = NoArgs]
    /\ jwt' = [jwt EXCEPT ![p] = NoCredential]
    /\ authed' = [authed EXCEPT ![p] = "unchecked"]
    /\ marker' = [marker EXCEPT ![p] = ""]
    /\ reply' = [reply EXCEPT ![p] = NoReply]
    /\ err' = [err EXCEPT ![p] = ""]
    /\ calls' = [calls EXCEPT ![p] = NoCalls]
    /\ credBefore' = [credBefore EXCEPT ![p] = NoCredential]
    /\ UNCHANGED <<cred, saved, now, backend, lastSetAuth>>

\* Time passes.
Tick ==
    /\ now < MaxTime
    /\ now' = now + 1
    /\ UNCHANGED <<cred, saved, backend, pc, method, tok, args, jwt, authed,
                   marker, reply, err, calls, lastSetAuth, credBefore>>

\* initJWT(): the request reads the active credential of serverConfig.  It is
\* the first statement of isJWTReqAuthenticated, of Login and (after the
\* query string is read) of Download.
initJWT(p) ==
    /\ pc[p] = "initJWT"
    /\ jwt' = [jwt EXCEPT ![p] = cred]
    /\ pc' = [pc EXCEPT ![p] = IF method[p] = "Login" THEN "login" ELSE "auth"]
    /\ UNCHANGED <<cred, saved, now, backend, method, tok, args, authed, marker,
                   reply, err, calls, lastSetAuth, credBefore>>

\* Variant: the rejection does not return, the method goes on.
RPCAuthNoReturn(p) ==
    /\ pc[p] = "auth"
    /\ method[p] \in RPCMethods \ {"Login"}
    /\ authed' = [authed EXCEPT ![p] =
                    IF isJWTReqAuthenticated(tok[p], jwt[p], now) THEN "ok" ELSE "rejected"]
    /\ pc' = [pc EXCEPT ![p] = "body"]
    /\ jwt' = [jwt EXCEPT ![p] = NoCredential]
    /\ UNCHANGED <<cred, saved, now, backend, method, tok, args, marker,
                   reply, err, calls, lastSetAuth, credBefore>>

\* Variant: the key function reads the active credential when it is called,
\* not the one initJWT has read.
RPCAuthSecondRead(p) ==
    /\ pc[p] = "auth"
    /\ method[p] \in RPCMethods \ {"Login"}
    /\ IF isJWTReqAuthenticated(tok[p], cred, now)
       THEN /\ authed' = [authed EXCEPT ![p] = "ok"]
            /\ pc' = [pc EXCEPT ![p] = "body"]
            /\ err' = err
       ELSE /\ authed' = [authed EXCEPT ![p] = "rejected"]
            /\ pc' = [pc EXCEPT ![p] = "done"]
            /\ err' = [err EXCEPT ![p] = errUnauthorized]
    /\ jwt' = [jwt EXCEPT ![p] = NoCredential]
    /\ UNCHANGED <<cred, saved, now, backend, method, tok, args, marker,
                   reply, calls, lastSetAuth, credBefore>>

\* if !isJWTReqAuthenticated(r) { return &json2.Error{"Unauthorized request"} }
RPCAuth(p) ==
    /\ pc[p] = "auth"
    /\ method[p] \in RPCMethods \ {"Login"}
    /\ IF isJWTReqAuthenticated(tok[p], jwt[p], now)
       THEN /\ authed' = [authed EXCEPT ![p] = "ok"]
            /\ pc' = [pc EXCEPT ![p] = "body"]
            /\ err' = err
       ELSE /\ authed' = [authed EXCEPT ![p] = "rejected"]
            /\ pc' = [pc EXCEPT ![p] = "done"]
            /\ err' = [err EXCEPT ![p] = errUnauthorized]
    /\ jwt' = [jwt EXCEPT ![p] = NoCredential]
    /\ UNCHANGED <<cred, saved, now, backend, method, tok, args, marker,
                   reply, calls, lastSetAuth, credBefore>>

\* Upload: if !isJWTReqAuthenticated(r) { writeWebErrorResponse(w, errInvalidToken) }
UploadAuth(p) ==
    /\ pc[p] = "auth"
    /\ method[p] = "Upload"
    /\ IF isJWTReqAuthenticated(tok[p], jwt[p], now)
       THEN /\ authed' = [authed EXCEPT ![p] = "ok"]
            /\ pc' = [pc EXCEPT ![p] = "body"]
            /\ reply' = reply
       ELSE /\ authed' = [authed EXCEPT ![p] = "rejected"]
            /\ pc' = [pc EXCEPT ![p] = "done"]
            /\ reply' = [reply EXCEPT ![p] = writeWebErrorResponse(@, errInvalidToken)]
    /\ jwt' = [jwt EXCEPT ![p] = NoCredential]
    /\ UNCHANGED <<cred, saved, now, backend, method, tok, args, marker,
                   err, calls, lastSetAuth, credBefore>>

\* Download: the token of the query string is parsed in the handler itself.
DownloadAuth(p) ==
    /\ pc[p] = "auth"
    /\ method[p] = "Download"
    /\ IF DownloadAuthenticated(tok[p], jwt[p], now)
       THEN /\ authed' = [authed EXCEPT ![p] = "ok"]
            /\ pc' = [pc EXCEPT ![p] = "body"]
            /\ reply' = reply
       ELSE /\ authed' = [authed EXCEPT ![p] = "rejected"]
            /\ pc' = [pc EXCEPT ![p] = "done"]
            /\ reply' = [reply EXCEPT ![p] = writeWebErrorResponse(@, errInvalidToken)]
    /\ jwt' = [jwt EXCEPT ![p] = NoCredential]
    /\ UNCHANGED <<cred, saved, now, backend, method, tok, args, marker,
                   err, calls, lastSetAuth, credBefore>>

\* ------------------------------------------------- methods: information

\* One more call on the storage backend / the config store / the token issuer.
FsCall(c) == [c EXCEPT !.fs = @ + 1]
ConfigCall(c) == [c EXCEPT !.config = @ + 1]
JwtCall(c) == [c EXCEPT !.jwt = @ + 1]

\* Variant: ServerInfo leaves the UI version out of its reply.
ServerInfoNoStamp(p) ==
    /\ pc[p] = "body"
    /\ method[p] = "ServerInfo"
    /\ reply' = [reply EXCEPT ![p] = [@ EXCEPT !.Info = "server"]]
    /\ pc' = [pc EXCEPT ![p] = "done"]
    /\ UNCHANGED <<cred, saved, now, backend, method, tok, args, jwt, authed,
                   marker, err, calls, lastSetAuth, credBefore>>

\* ServerInfo, after the gate: the reply is filled from the process itself.
ServerInfo(p) ==
    /\ pc[p] = "body"
    /\ method[p] = "ServerInfo"
    /\ reply' = [reply EXCEPT ![p] = [@ EXCEPT !.Info = "server", !.UIVersion = UIVersion]]
    /\ pc' = [pc EXCEPT ![p] = "done"]
    /\ UNCHANGED <<cred, saved, now, backend, method, tok, args, jwt, authed,
                   marker, err, calls, lastSetAuth, credBefore>>

\* DiskInfo, after the gate: disk.GetInfo(web.Filesystem.GetRootPath()).
DiskInfo(p) ==
    /\ pc[p] = "body"
    /\ method[p] = "DiskInfo"
    /\ calls' = [calls EXCEPT ![p] = FsCall(@)]
    /\ pc' = [pc EXCEPT ![p] = "done"]
    /\ \/ /\ err' = [err EXCEPT ![p] = OtherError]
          /\ reply' = reply
       \/ /\ err' = err
          /\ reply' = [reply EXCEPT ![p] = [@ EXCEPT !.Info = "disk", !.UIVersion = UIVersion]]
    /\ UNCHANGED <<cred, saved, now, backend, method, tok, args, jwt, authed, marker, lastSetAuth, credBefore>>

\* --------------------------------------------------- methods: buckets

\* Filesystem.MakeBucket: a bucket that exists is an error, a new one is added
\* and stamped with its creation date (here: its rank among the buckets).
FsMakeBucket(buckets, name) ==
    IF \E i \in 1..Len(buckets) : buckets[i].Name = name
    THEN [err |-> "BucketExists", buckets |-> buckets]
    ELSE [err |-> "", buckets |-> Append(buckets, [Name |-> name, Created |-> Len(buckets) + 1])]

\* MakeBucket, after the gate.
MakeBucket(p) ==
    /\ pc[p] = "body"
    /\ method[p] = "MakeBucket"
    /\ LET e == FsMakeBucket(fsBuckets, args[p].BucketName) IN
         /\ fsBuckets' = e.buckets
         /\ err' = [err EXCEPT ![p] = e.err]
    /\ reply' = [reply EXCEPT ![p] = [@ EXCEPT !.UIVersion = UIVersion]]
    /\ calls' = [calls EXCEPT ![p] = FsCall(@)]
    /\ pc' = [pc EXCEPT ![p] = "done"]
    /\ UNCHANGED <<cred, saved, now, fsObjects, fsListing, method, tok, args, jwt,
                   authed, marker, lastSetAuth, credBefore>>

\* Variant: the bucket name is compared with the whole path.
IsListedFullPath(bucket) == <<bucket.Name>> # reservedBucket

\* bucket.Name != path.Base(reservedBucket)
IsListed(bucket) == bucket.Name # PathBase(reservedBucket)

\* The loop of ListBuckets over the buckets the backend returned.
RECURSIVE ListBucketsLoop(_, _)
ListBucketsLoop(buckets, replyBuckets) ==
    IF buckets = <<>> THEN replyBuckets
    ELSE LET bucket == Head(buckets) IN
         ListBucketsLoop(Tail(buckets),
             IF IsListed(bucket)
             THEN Append(replyBuckets,
                         [Name |-> bucket.Name, CreationDate |-> bucket.Created])
             ELSE replyBuckets)

\* ListBuckets, after the gate.
ListBuckets(p) ==
    /\ pc[p] = "body"
    /\ method[p] = "ListBuckets"
    /\ calls' = [calls EXCEPT ![p] = FsCall(@)]
    /\ pc' = [pc EXCEPT ![p] = "done"]
    /\ \/ /\ err' = [err EXCEPT ![p] = OtherError]
          /\ reply' = reply
       \/ /\ err' = err
          /\ reply' = [reply EXCEPT ![p] =
                         [@ EXCEPT !.Buckets = ListBucketsLoop(fsBuckets, @),
                                   !.UIVersion = UIVersion]]
    /\ UNCHANGED <<cred, saved, now, backend, method, tok, args, jwt, authed, marker, lastSetAuth, credBefore>>

\* --------------------------------------------------- methods: objects

\* ObjectInfo of an object, and of a prefix (only Key is set).
ObjectInfoOf(obj) ==
    [Key |-> obj.Name, LastModified |-> obj.ModifiedTime, Size |-> obj.Size,
     ContentType |-> ""]
PrefixInfoOf(prefix) ==
    [Key |-> prefix, LastModified |-> 0, Size |-> 0, ContentType |-> ""]

\* Variant: the loop over the prefixes comes first.
AppendPagePrefixesFirst(objects, lo) ==
    objects \o [i \in 1..Len(lo.Prefixes) |-> PrefixInfoOf(lo.Prefixes[i])]
            \o [i \in 1..Len(lo.Objects) |-> ObjectInfoOf(lo.Objects[i])]

\* The two inner loops of ListObjects: the objects of the page, then its prefixes.
AppendPage(objects, lo) ==
    objects \o [i \in 1..Len(lo.Objects) |-> ObjectInfoOf(lo.Objects[i])]
            \o [i \in 1..Len(lo.Prefixes) |-> PrefixInfoOf(lo.Prefixes[i])]

\* Variant: the loop ends on a truncated page.
LastPageInverted(lo) == lo.IsTruncated

\* if !lo.IsTruncated { break }
LastPage(lo) == ~lo.IsTruncated

\* Filesystem.ListObjects: the n-th call of a request gets the n-th page.
FsListObjects(listing, n) == listing[n]

\* Variant: a page that fails is passed over and the loop goes on.
ListObjectsPastFailure(p) ==
    /\ pc[p] = "body"
    /\ method[p] = "ListObjects"
    /\ Len(calls[p].markers) < Len(fsListing)
    /\ LET lo == FsListObjects(fsListing, Len(calls[p].markers) + 1) IN
         /\ calls' = [calls EXCEPT ![p] = [FsCall(@) EXCEPT !.markers = Append(@, marker[p])]]
         /\ IF lo.err # ""
            THEN UNCHANGED <<err, pc, marker, reply>>
            ELSE /\ marker' = [marker EXCEPT ![p] = lo.NextMarker]
                 /\ err' = err
                 /\ IF LastPage(lo)
                    THEN /\ reply' = [reply EXCEPT ![p] =
                                        [@ EXCEPT !.Objects = AppendPage(@, lo),
                                                  !.UIVersion = UIVersion]]
                         /\ pc' = [pc EXCEPT ![p] = "done"]
                    ELSE /\ reply' = [reply EXCEPT ![p] =
                                        [@ EXCEPT !.Objects = AppendPage(@, lo)]]
                         /\ pc' = pc
    /\ UNCHANGED <<cred, saved, now, backend, method, tok, args, jwt, authed, lastSetAuth, credBefore>>

\* One round of the loop of ListObjects: a page is requested with the marker,
\* an error returns, otherwise the page is appended and the loop goes on
\* unless the page is the last.
ListObjects(p) ==
    /\ pc[p] = "body"
    /\ method[p] = "ListObjects"
    /\ Len(calls[p].markers) < Len(fsListing)
    /\ LET lo == FsListObjects(fsListing, Len(calls[p].markers) + 1) IN
         /\ calls' = [calls EXCEPT ![p] = [FsCall(@) EXCEPT !.markers = Append(@, marker[p])]]
         /\ IF lo.err # ""
            THEN /\ err' = [err EXCEPT ![p] = lo.err]
                 /\ pc' = [pc EXCEPT ![p] = "done"]
                 /\ UNCHANGED <<marker, reply>>
            ELSE /\ marker' = [marker EXCEPT ![p] = lo.NextMarker]
                 /\ err' = err
                 /\ IF LastPage(lo)
                    THEN /\ reply' = [reply EXCEPT ![p] =
                                        [@ EXCEPT !.Objects = AppendPage(@, lo),
                                                  !.UIVersion = UIVersion]]
                         /\ pc' = [pc EXCEPT ![p] = "done"]
                    ELSE /\ reply' = [reply EXCEPT ![p] =
                                        [@ EXCEPT !.Objects = AppendPage(@, lo)]]
                         /\ pc' = pc
    /\ UNCHANGED <<cred, saved, now, backend, method, tok, args, jwt, authed, lastSetAuth, credBefore>>

\* RemoveObject, after the gate: Filesystem.DeleteObject.
RemoveObject(p) ==
    /\ pc[p] = "body"
    /\ method[p] = "RemoveObject"
    /\ reply' = [reply EXCEPT ![p] = [@ EXCEPT !.UIVersion = UIVersion]]
    /\ calls' = [calls EXCEPT ![p] = FsCall(@)]
    /\ pc' = [pc EXCEPT ![p] = "done"]
    /\ IF args[p].ObjectName \in fsObjects
       THEN /\ fsObjects' = fsObjects \ {args[p].ObjectName}
            /\ err' = err
       ELSE /\ fsObjects' = fsObjects
            /\ err' = [err EXCEPT ![p] = "ObjectNotFound"]
    /\ UNCHANGED <<cred, saved, now, fsBuckets, fsListing, method, tok, args, jwt,
                   authed, marker, lastSetAuth, credBefore>>

\* Upload, after the gate: Filesystem.CreateObject; an error is translated,
\* success writes nothing.
Upload(p) ==
    /\ pc[p] = "body"
    /\ method[p] = "Upload"
    /\ calls' = [calls EXCEPT ![p] = FsCall(@)]
    /\ pc' = [pc EXCEPT ![p] = "done"]
    /\ \/ /\ fsObjects' = fsObjects \cup {args[p].ObjectName}
          /\ reply' = reply
       \/ \E e \in FsErrors \cup {OtherError} :
            /\ fsObjects' = fsObjects
            /\ reply' = [reply EXCEPT ![p] = writeWebErrorResponse(@, e)]
    /\ UNCHANGED <<cred, saved, now, fsBuckets, fsListing, method, tok, args, jwt,
                   authed, marker, err, lastSetAuth, credBefore>>

\* Download, after the token check: Filesystem.GetObject streams the object
\* into the response; an error is translated.
Download(p) ==
    /\ pc[p] = "body"
    /\ method[p] = "Download"
    /\ calls' = [calls EXCEPT ![p] = FsCall(@)]
    /\ pc' = [pc EXCEPT ![p] = "done"]
    /\ IF args[p].ObjectName \in fsObjects
       THEN reply' = [reply EXCEPT ![p] = [@ EXCEPT !.Body = args[p].ObjectName]]
       ELSE reply' = [reply EXCEPT ![p] = writeWebErrorResponse(@, "ObjectNotFound")]
    /\ UNCHANGED <<cred, saved, now, backend, method, tok, args, jwt, authed,
                   marker, err, lastSetAuth, credBefore>>

\* ------------------------------------------------ methods: credentials

\* Variant: Login looks at the username only.
LoginUsernameOnly(p) ==
    /\ pc[p] = "login"
    /\ method[p] = "Login"
    /\ pc' = [pc EXCEPT ![p] = "done"]
    /\ IF args[p].Username = jwt[p].AccessKeyID
       THEN /\ calls' = [calls EXCEPT ![p] = JwtCall(JwtCall(@))]
            /\ \/ /\ err' = [err EXCEPT ![p] = "GenerateTokenFailed"]
                  /\ reply' = reply
               \/ /\ err' = err
                  /\ reply' = [reply EXCEPT ![p] =
                                 [@ EXCEPT !.Token = GenerateToken(jwt[p], args[p].Username, now),
                                           !.UIVersion = UIVersion]]
       ELSE /\ calls' = [calls EXCEPT ![p] = JwtCall(@)]
            /\ err' = [err EXCEPT ![p] = errInvalidCredentials]
            /\ reply' = reply
    /\ jwt' = [jwt EXCEPT ![p] = NoCredential]
    /\ UNCHANGED <<cred, saved, now, backend, method, tok, args, authed, marker, lastSetAuth, credBefore>>

\* Login: jwt.Authenticate(username, password), then jwt.GenerateToken(username).
\* No token is looked at.
Login(p) ==
    /\ pc[p] = "login"
    /\ method[p] = "Login"
    /\ pc' = [pc EXCEPT ![p] = "done"]
    /\ IF Authenticate(jwt[p], args[p].Username, args[p].Password)
       THEN /\ calls' = [calls EXCEPT ![p] = JwtCall(JwtCall(@))]
            /\ \/ /\ err' = [err EXCEPT ![p] = "GenerateTokenFailed"]
                  /\ reply' = reply
               \/ /\ err' = err
                  /\ reply' = [reply EXCEPT ![p] =
                                 [@ EXCEPT !.Token = GenerateToken(jwt[p], args[p].Username, now),
                                           !.UIVersion = UIVersion]]
       ELSE /\ calls' = [calls EXCEPT ![p] = JwtCall(@)]
            /\ err' = [err EXCEPT ![p] = errInvalidCredentials]
            /\ reply' = reply
    /\ jwt' = [jwt EXCEPT ![p] = NoCredential]
    /\ UNCHANGED <<cred, saved, now, backend, method, tok, args, authed, marker, lastSetAuth, credBefore>>

\* Variant: the pair GenerateAuth draws is made the active one.
GenerateAuthActivates(p) ==
    /\ pc[p] = "body"
    /\ method[p] = "GenerateAuth"
    /\ \E a \in AccessKeys \ {""}, s \in SecretKeys \ {""} :
         /\ reply' = [reply EXCEPT ![p] =
                        [@ EXCEPT !.AccessKey = a, !.SecretKey = s, !.UIVersion = UIVersion]]
         /\ cred' = Credential(a, s)
    /\ pc' = [pc EXCEPT ![p] = "done"]
    /\ UNCHANGED <<saved, now, backend, method, tok, args, jwt, authed,
                   marker, err, calls, lastSetAuth, credBefore>>

\* GenerateAuth, after the gate: mustGenAccessKeys() draws a fresh pair, which
\* goes into the reply and nowhere else.
GenerateAuth(p) ==
    /\ pc[p] = "body"
    /\ method[p] = "GenerateAuth"
    /\ \E a \in AccessKeys \ {""}, s \in SecretKeys \ {""} :
         reply' = [reply EXCEPT ![p] =
                     [@ EXCEPT !.AccessKey = a, !.SecretKey = s, !.UIVersion = UIVersion]]
    /\ pc' = [pc EXCEPT ![p] = "done"]
    /\ UNCHANGED <<cred, saved, now, backend, method, tok, args, jwt, authed,
                   marker, err, calls, lastSetAuth, credBefore>>

\* Variant: only the access key is checked.
SetAuthCheckAccessKeyOnly(a) ==
    IF a.AccessKey = "" THEN errEmptyAccessKey ELSE ""

\* The two checks of SetAuth on its arguments: the message of the error, ""
\* if both keys are given.
SetAuthCheck(a) ==
    IF a.AccessKey = "" THEN errEmptyAccessKey
    ELSE IF a.SecretKey = "" THEN errEmptySecretKey
    ELSE ""

\* SetAuth, after the gate: the arguments are checked, then
\* serverConfig.SetCredential(cred) makes the new pair the active one.
SetAuth(p) ==
    /\ pc[p] = "body"
    /\ method[p] = "SetAuth"
    /\ IF SetAuthCheck(args[p]) # ""
       THEN /\ err' = [err EXCEPT ![p] = SetAuthCheck(args[p])]
            /\ pc' = [pc EXCEPT ![p] = "done"]
            /\ UNCHANGED <<cred, calls>>
       ELSE /\ cred' = Credential(args[p].AccessKey, args[p].SecretKey)
            /\ calls' = [calls EXCEPT ![p] = ConfigCall(@)]
            /\ pc' = [pc EXCEPT ![p] = "save"]
            /\ err' = err
    /\ UNCHANGED <<saved, now, backend, method, tok, args, jwt, authed, marker, reply, lastSetAuth, credBefore>>

\* SetAuth: serverConfig.Save() writes the configuration as it is in memory
\* to disk, or fails.
SetAuthSave(p) ==
    /\ pc[p] = "save"
    /\ calls' = [calls EXCEPT ![p] = ConfigCall(@)]
    /\ \/ /\ saved' = cred
          /\ pc' = [pc EXCEPT ![p] = "reauth"]
          /\ err' = err
       \/ /\ saved' = saved
          /\ pc' = [pc EXCEPT ![p] = "done"]
          /\ err' = [err EXCEPT ![p] = "SaveFailed"]
    /\ UNCHANGED <<cred, now, backend, method, tok, args, jwt, authed, marker, reply, lastSetAuth, credBefore>>

\* SetAuth: jwt := initJWT() reads the active credential again.
SetAuthInitJWT(p) ==
    /\ pc[p] = "reauth"
    /\ jwt' = [jwt EXCEPT ![p] = cred]
    /\ pc' = [pc EXCEPT ![p] = "issue"]
    /\ UNCHANGED <<cred, saved, now, backend, method, tok, args, authed, marker,
                   reply, err, calls, lastSetAuth, credBefore>>

\* Variant: SetAuth issues its token without jwt.Authenticate.
SetAuthTokenNoAuthenticate(p) ==
    /\ pc[p] = "issue"
    /\ pc' = [pc EXCEPT ![p] = "done"]
    /\ calls' = [calls EXCEPT ![p] = JwtCall(@)]
    /\ \/ /\ err' = [err EXCEPT ![p] = "GenerateTokenFailed"]
          /\ reply' = reply
          /\ lastSetAuth' = lastSetAuth
       \/ /\ err' = err
          /\ reply' = [reply EXCEPT ![p] =
                         [@ EXCEPT !.Token = GenerateToken(jwt[p], args[p].AccessKey, now),
                                   !.UIVersion = UIVersion]]
          /\ lastSetAuth' = [AccessKey |-> args[p].AccessKey,
                             SecretKey |-> args[p].SecretKey,
                             Token |-> GenerateToken(jwt[p], args[p].AccessKey, now)]
    /\ jwt' = [jwt EXCEPT ![p] = NoCredential]
    /\ UNCHANGED <<cred, saved, now, backend, method, tok, args, authed, marker, credBefore>>

\* SetAuth: jwt.Authenticate(args.AccessKey, args.SecretKey), then
\* jwt.GenerateToken(args.AccessKey).
SetAuthToken(p) ==
    /\ pc[p] = "issue"
    /\ pc' = [pc EXCEPT ![p] = "done"]
    /\ IF Authenticate(jwt[p], args[p].AccessKey, args[p].SecretKey)
       THEN /\ calls' = [calls EXCEPT ![p] = JwtCall(JwtCall(@))]
            /\ \/ /\ err' = [err EXCEPT ![p] = "GenerateTokenFailed"]
                  /\ reply' = reply
                  /\ lastSetAuth' = lastSetAuth
               \/ /\ err' = err
                  /\ reply' = [reply EXCEPT ![p] =
                                 [@ EXCEPT !.Token = GenerateToken(jwt[p], args[p].AccessKey, now),
                                           !.UIVersion = UIVersion]]
                  /\ lastSetAuth' = [AccessKey |-> args[p].AccessKey,
                                     SecretKey |-> args[p].SecretKey,
                                     Token |-> GenerateToken(jwt[p], args[p].AccessKey, now)]
       ELSE /\ calls' = [calls EXCEPT ![p] = JwtCall(@)]
            /\ err' = [err EXCEPT ![p] = errInvalidCredentials]
            /\ reply' = reply
            /\ lastSetAuth' = lastSetAuth
    /\ jwt' = [jwt EXCEPT ![p] = NoCredential]
    /\ UNCHANGED <<cred, saved, now, backend, method, tok, args, authed, marker, credBefore>>

\* Variant: GetAuth keeps the secret key to itself.
GetAuthNoSecret(p) ==
    /\ pc[p] = "body"
    /\ method[p] = "GetAuth"
    /\ reply' = [reply EXCEPT ![p] =
                   [@ EXCEPT !.AccessKey = cred.AccessKeyID, !.UIVersion = UIVersion]]
    /\ pc' = [pc EXCEPT ![p] = "done"]
    /\ UNCHANGED <<cred, saved, now, backend, method, tok, args, jwt, authed,
                   marker, err, calls, lastSetAuth, credBefore>>

\* Variant: GetAuth without the gate.
GetAuthUngated(p) ==
    /\ pc[p] \in {"auth", "body"}
    /\ method[p] = "GetAuth"
    /\ reply' = [reply EXCEPT ![p] =
                   [@ EXCEPT !.AccessKey = cred.AccessKeyID,
                             !.SecretKey = cred.SecretAccessKey,
                             !.UIVersion = UIVersion]]
    /\ pc' = [pc EXCEPT ![p] = "done"]
    /\ UNCHANGED <<cred, saved, now, backend, method, tok, args, jwt, authed,
                   marker, err, calls, lastSetAuth, credBefore>>

\* GetAuth, after the gate: serverConfig.GetCredential() goes into the reply.
GetAuth(p) ==
    /\ pc[p] = "body"
    /\ method[p] = "GetAuth"
    /\ reply' = [reply EXCEPT ![p] =
                   [@ EXCEPT !.AccessKey = cred.AccessKeyID,
                             !.SecretKey = cred.SecretAccessKey,
                             !.UIVersion = UIVersion]]
    /\ pc' = [pc EXCEPT ![p] = "done"]
    /\ UNCHANGED <<cred, saved, now, backend, method, tok, args, jwt, authed,
                   marker, err, calls, lastSetAuth, credBefore>>

\* ------------------------------------------------------ specifications

\* Spec: one client sends requests of every method, one after the other,
\* with any token, while time passes.
Next ==
    \/ \E m \in Methods : \E t \in TokensOf(m) \cup {lastSetAuth.Token}, a \in ArgsOf(m) :
         Request(1, m, t, a)
    \/ initJWT(1)
    \/ RPCAuth(1)
    \/ UploadAuth(1)
    \/ DownloadAuth(1)
    \/ ServerInfo(1)
    \/ DiskInfo(1)
    \/ MakeBucket(1)
    \/ ListBuckets(1)
    \/ ListObjects(1)
    \/ RemoveObject(1)
    \/ Upload(1)
    \/ Download(1)
    \/ Login(1)
    \/ GenerateAuth(1)
    \/ SetAuth(1)
    \/ SetAuthSave(1)
    \/ SetAuthInitJWT(1)
    \/ SetAuthToken(1)
    \/ GetAuth(1)
    \/ Respond(1)
    \/ Tick

Spec == Init /\ [][Next]_vars

\* SpecFail: as Spec, with a backend whose listing may break off: a page,
\* then an error.
FailingListing ==
    << [err |-> "", Objects |-> <<ObjectOf("o1")>>,
        Prefixes |-> <<>>, IsTruncated |-> TRUE, NextMarker |-> "m1"],
       ListObjectsFailure >>

InitFail ==
    /\ InitServer
    /\ fsBuckets = <<>>
    /\ fsObjects = {}
    /\ fsListing \in {DefaultListing, FailingListing}

SpecFail == InitFail /\ [][Next]_vars

\* SpecList: one client lists objects, whatever pages the backend has to
\* answer with.  Its token is one Login would have issued at the start.
LoginToken == GenerateToken(Credential("a1", "s1"), "a1", 0)

InitList ==
    /\ InitServer
    /\ fsBuckets = <<>>
    /\ fsObjects = {}
    /\ fsListing \in Listings

NextList ==
    \/ \E t \in {LoginToken, NoToken}, a \in ArgsOf("ListObjects") :
         Request(1, "ListObjects", t, a)
    \/ initJWT(1)
    \/ RPCAuth(1)
    \/ ListObjects(1)
    \/ Respond(1)

SpecList == InitList /\ [][NextList]_vars

\* A request that is under way is served to its end.
FairList == SpecList /\ WF_vars(initJWT(1) \/ RPCAuth(1) \/ ListObjects(1))

\* SpecBuckets: one client lists the buckets, whatever buckets the backend holds.
InitBuckets ==
    /\ InitServer
    /\ fsBuckets \in BucketLists
    /\ fsObjects = {}
    /\ fsListing = DefaultListing

NextBuckets ==
    \/ \E t \in {LoginToken, NoToken}, a \in ArgsOf("ListBuckets") :
         Request(1, "ListBuckets", t, a)
    \/ initJWT(1)
    \/ RPCAuth(1)
    \/ ListBuckets(1)
    \/ Respond(1)

SpecBuckets == InitBuckets /\ [][NextBuckets]_vars

\* SpecConc: the clients work on the credential concurrently, with the
\* tokens Login and SetAuth issue.
ConcMethods == {"Login", "SetAuth", "GetAuth"}
ConcTokens == {GenerateToken(Credential("a1", s), "a1", 0) : s \in SecretKeys \ {""}}
ConcTokensOf(m) == IF m = "Login" THEN {NoToken} ELSE ConcTokens \cup {NoToken}
ConcArgsOf(m) ==
    {a \in ArgsOf(m) : /\ m = "Login" => a.Username # "" /\ a.Password # ""
                       /\ m = "SetAuth" => a.AccessKey # "" /\ a.SecretKey # ""}

NextConc ==
    \E p \in Clients :
       \/ \E m \in ConcMethods : \E t \in ConcTokensOf(m), a \in ConcArgsOf(m) :
            Request(p, m, t, a)
       \/ initJWT(p)
       \/ RPCAuth(p)
       \/ Login(p)
       \/ SetAuth(p)
       \/ SetAuthSave(p)
       \/ SetAuthInitJWT(p)
       \/ SetAuthToken(p)
       \/ GetAuth(p)
       \/ Respond(p)

SpecConc == Init /\ [][NextConc]_vars

\* ------------------------------------------------------------- claims

\* A token is acceptable under a secret at a time: it is there, it declares
\* an HMAC algorithm, it is signed with the secret and it has not expired.
Acceptable(t, secret, clock) ==
    /\ t # NoToken
    /\ t.alg \in SigningMethodHMAC
    /\ t.key = secret
    /\ clock <= t.exp

\* Request p leaves the token check in this step.
LeavesGate(p) == pc[p] = "auth" /\ pc'[p] # "auth"

\* C1: for every RPC method other than Login, a request whose token is absent
\* or invalid ends at the gate with "Unauthorized request"; it has made no
\* call on the storage backend or the config store (nor on the token issuer),
\* and the credential and the backend are as they were.
C1_UnauthorizedNoCalls ==
    [][\A p \in Clients :
         (/\ LeavesGate(p)
          /\ method[p] \in RPCMethods \ {"Login"}
          /\ ~Acceptable(tok[p], cred.SecretAccessKey, now))
         => /\ pc'[p] = "done"
            /\ err'[p] = errUnauthorized
            /\ calls'[p] = NoCalls
            /\ reply'[p] = NoReply
            /\ UNCHANGED <<config, backend>>]_vars

C1_Witness ==
    \E p \in Clients :
       /\ pc[p] = "done"
       /\ method[p] = "SetAuth"
       /\ tok[p] # NoToken
       /\ tok[p].key # cred.SecretAccessKey
       /\ err[p] = errUnauthorized
       /\ calls[p] = NoCalls

\* C2 as stated: every RPC method, Login included, has the token verified
\* before anything else, and a request without a valid token ends with
\* "Unauthorized request" and no call on a collaborator.
C2_EveryMethodGated ==
    \A p \in Clients :
       (pc[p] = "done" /\ method[p] \in RPCMethods)
       => /\ authed[p] # "unchecked"
          /\ tok[p] = NoToken => (err[p] = errUnauthorized /\ calls[p] = NoCalls)

\* C2, amended: every RPC method except Login has the token verified before
\* anything else (no call on a collaborator, nothing in the reply, before the
\* verdict), and a rejected request ends there with "Unauthorized request";
\* Login verifies no token and never answers "Unauthorized request".
C2_EveryMethodButLoginGated ==
    \A p \in Clients :
       /\ (method[p] \in RPCMethods \ {"Login"})
          => /\ pc[p] \in {"body", "save", "reauth", "issue", "done"} => authed[p] # "unchecked"
             /\ authed[p] = "unchecked" => (calls[p] = NoCalls /\ reply[p] = NoReply)
             /\ authed[p] = "rejected"
                => (pc[p] = "done" /\ err[p] = errUnauthorized
                    /\ calls[p] = NoCalls /\ reply[p] = NoReply)
       /\ method[p] = "Login" => (authed[p] = "unchecked" /\ err[p] # errUnauthorized)

C2_Witness ==
    \E p \in Clients :
       /\ pc[p] = "done"
       /\ method[p] = "GenerateAuth"
       /\ authed[p] = "rejected"
       /\ err[p] = errUnauthorized

\* C3: the check of the header token and the check of Download's query token
\* accept a token exactly if it declares an HMAC algorithm, is signed with
\* the active secret and has not expired; a token with another algorithm
\* ("none" included) is rejected though signed with the active secret and not
\* expired; and the two checks agree on every token and secret.
C3_BothModesHMACOnly ==
    /\ [](\A t \in Tokens \cup {NoToken}, c \in Credentials :
            isJWTReqAuthenticated(t, c, now) = DownloadAuthenticated(t, c, now))
    /\ [][\A p \in Clients :
            LeavesGate(p)
            => /\ (authed'[p] = "ok") = Acceptable(tok[p], cred.SecretAccessKey, now)
               /\ tok[p].alg \notin SigningMethodHMAC => authed'[p] = "rejected"]_vars

C3_Witness ==
    \E p \in Clients :
       /\ pc[p] = "done"
       /\ method[p] = "Download"
       /\ tok[p].alg = "none"
       /\ tok[p].key = cred.SecretAccessKey
       /\ now <= tok[p].exp
       /\ authed[p] = "rejected"

\* Request p has got a token from Login or SetAuth and still holds the reply.
HoldsToken(p) ==
    /\ pc[p] = "done"
    /\ method[p] \in {"Login", "SetAuth"}
    /\ err[p] = ""
    /\ reply[p].Token # NoToken

\* SetAuth request q has returned its token, and the pair it has set is the
\* active one: the rotation is complete.
Rotated(q) ==
    /\ HoldsToken(q)
    /\ method[q] = "SetAuth"
    /\ cred = Credential(args[q].AccessKey, args[q].SecretKey)

\* The pair a token was issued under: its subject and its signing key.
IssuedUnder(t) == Credential(t.sub, t.key)

\* A verification of t that reads the active credential now rejects t.
RejectedNow(t) ==
    /\ ~isJWTReqAuthenticated(t, cred, now)
    /\ ~DownloadAuthenticated(t, cred, now)

ReadsCredential(p) ==
    \/ pc[p] = "initJWT" /\ pc'[p] # "initJWT"
    \/ pc[p] = "reauth" /\ pc'[p] = "issue"
    \/ pc[p] = "body" /\ method[p] = "GetAuth" /\ pc'[p] = "done"

\* C5: SetAuth's write to disk and its activation in memory are one
\* transition: no request ever reads an active credential that is not the
\* one on disk.
C5_ActivationIsPersisted ==
    [][\A p \in Clients : ReadsCredential(p) => cred = saved]_vars

\* C6: an authenticated SetAuth with an empty access key fails with "Empty
\* access key not allowed", one with an access key and an empty secret key
\* with the other message "Empty secret key not allowed"; neither calls
\* SetCredential or Save, and the credential stays as it is.
C6_EmptyKeysRejected ==
    [][\A p \in Clients :
         (/\ pc[p] = "body"
          /\ method[p] = "SetAuth"
          /\ pc'[p] # "body"
          /\ (args[p].AccessKey = "" \/ args[p].SecretKey = ""))
         => /\ pc'[p] = "done"
            /\ err'[p] = IF args[p].AccessKey = ""
                         THEN "Empty access key not allowed"
                         ELSE "Empty secret key not allowed"
            /\ calls'[p].config = 0
            /\ UNCHANGED config]_vars

C6_Witness ==
    \E p \in Clients :
       /\ pc[p] = "done"
       /\ method[p] = "SetAuth"
       /\ authed[p] = "ok"
       /\ args[p].AccessKey # ""
       /\ args[p].SecretKey = ""
       /\ err[p] = errEmptySecretKey

\* C7: a GetAuth that is authenticated with the token a successful
\* SetAuth(A, S) returned, no SetAuth having been sent since, replies
\* AccessKey = A and SecretKey = S.
C7_SetAuthGetAuthRoundTrip ==
    \A p \in Clients :
       (/\ pc[p] = "done"
        /\ method[p] = "GetAuth"
        /\ err[p] = ""
        /\ lastSetAuth # NoSetAuth
        /\ tok[p] = lastSetAuth.Token)
       => /\ reply[p].AccessKey = lastSetAuth.AccessKey
          /\ reply[p].SecretKey = lastSetAuth.SecretKey

C7_Witness ==
    \E p \in Clients :
       /\ pc[p] = "done"
       /\ method[p] = "GetAuth"
       /\ err[p] = ""
       /\ lastSetAuth # NoSetAuth
       /\ tok[p] = lastSetAuth.Token
       /\ lastSetAuth.AccessKey = "a2"
       /\ lastSetAuth.SecretKey = "s2"
       /\ reply[p].SecretKey = "s2"

\* The entries of a page in the order the backend returned them: its
\* objects, then its prefixes, a prefix having a key and nothing else.
EntriesOf(page) ==
    [i \in 1..(Len(page.Objects) + Len(page.Prefixes)) |->
       IF i <= Len(page.Objects)
       THEN [Key |-> page.Objects[i].Name,
             LastModified |-> page.Objects[i].ModifiedTime,
             Size |-> page.Objects[i].Size,
             ContentType |-> ""]
       ELSE [Key |-> page.Prefixes[i - Len(page.Objects)],
             LastModified |-> 0, Size |-> 0, ContentType |-> ""]]

RECURSIVE Concatenation(_)
Concatenation(pages) ==
    IF pages = <<>> THEN <<>>
    ELSE Concatenation(SubSeq(pages, 1, Len(pages) - 1)) \o EntriesOf(pages[Len(pages)])

\* The pages request p has received so far.
Received(p) == SubSeq(fsListing, 1, Len(calls[p].markers))

\* ListObjects request p is past the gate.
Listing(p) == method[p] = "ListObjects" /\ authed[p] = "ok"

\* C8: the reply of a successful ListObjects is the concatenation of the
\* pages received, in the order received, each page's entries in the
\* backend's order; the first page is requested with the empty marker and
\* every later one with the NextMarker of the page before.
C8_ReplyIsConcatenationOfPages ==
    \A p \in Clients :
       (Listing(p) /\ pc[p] = "done" /\ err[p] = "")
       => /\ Received(p) # <<>>
          /\ reply[p].Objects = Concatenation(Received(p))
          /\ calls[p].markers[1] = ""
          /\ \A i \in 2..Len(calls[p].markers) :
                calls[p].markers[i] = fsListing[i - 1].NextMarker

C8_Witness ==
    \E p \in Clients :
       /\ Listing(p) /\ pc[p] = "done" /\ err[p] = ""
       /\ Len(Received(p)) = 2
       /\ Len(fsListing[1].Objects) = 2
       /\ Len(fsListing[1].Prefixes) = 1
       /\ Len(fsListing[2].Objects) = 1
       /\ fsListing[1].NextMarker = "m1"
       /\ Len(reply[p].Objects) = 4

\* C9: ListObjects asks for another page exactly if the page just received
\* is truncated: every page before the last received is truncated, the
\* request goes on only after a truncated page, it returns its reply only
\* after a page that is not truncated and its error only after a failed page,
\* and it makes one call per page received; and a request that is listing
\* returns in the end.
C9_Safety ==
    \A p \in Clients :
       Listing(p)
       => /\ calls[p].fs = Len(calls[p].markers)
          /\ \A i \in 1..(Len(Received(p)) - 1) :
                fsListing[i].err = "" /\ fsListing[i].IsTruncated
          /\ (pc[p] = "body" /\ Received(p) # <<>>)
                => LET last == fsListing[Len(Received(p))] IN
                   last.err = "" /\ last.IsTruncated
          /\ pc[p] = "done"
                => LET last == fsListing[Len(Received(p))] IN
                   IF err[p] = "" THEN last.err = "" /\ ~last.IsTruncated
                   ELSE last.err # ""

C9_TerminatesWhenBackendEnds ==
    /\ []C9_Safety
    /\ \A p \in Clients : (Listing(p) /\ pc[p] = "body") ~> (pc[p] = "done")

C9_Witness ==
    \E p \in Clients :
       /\ Listing(p) /\ pc[p] = "done" /\ err[p] = ""
       /\ Len(fsListing) = 2
       /\ ~fsListing[1].IsTruncated
       /\ fsListing[1].err = ""
       /\ calls[p].fs = 1

\* The reserved name, and the buckets of the backend that do not bear it.
ReservedName == reservedBucket[Len(reservedBucket)]
NotReserved(bucket) == bucket.Name # ReservedName
OtherBuckets == SelectSeq(fsBuckets, NotReserved)

\* C10: the reply of a successful ListBuckets holds no bucket with the
\* reserved name, and holds each other bucket of the backend once, in the
\* backend's order, with its name and its creation date.
C10_ReservedBucketHidden ==
    \A p \in Clients :
       (pc[p] = "done" /\ method[p] = "ListBuckets" /\ authed[p] = "ok" /\ err[p] = "")
       => /\ \A i \in 1..Len(reply[p].Buckets) : reply[p].Buckets[i].Name # ReservedName
          /\ Len(reply[p].Buckets) = Len(OtherBuckets)
          /\ \A i \in 1..Len(OtherBuckets) :
                /\ reply[p].Buckets[i].Name = OtherBuckets[i].Name
                /\ reply[p].Buckets[i].CreationDate = OtherBuckets[i].Created

C10_Witness ==
    \E p \in Clients :
       /\ pc[p] = "done" /\ method[p] = "ListBuckets" /\ authed[p] = "ok" /\ err[p] = ""
       /\ Len(fsBuckets) = 3
       /\ fsBuckets[2].Name = ReservedName
       /\ Len(reply[p].Buckets) = 2
       /\ reply[p].Buckets[2].CreationDate = 3

\* Status and description of the internal error, and the responses the
\* translator writes for the declared variants and for errors that are none
\* of them.
InternalError == getAPIError("ErrInternalError")
UnknownErrors == {OtherError, "BucketExists"}
Translated(e) == writeWebErrorResponse(NoReply, e)

\* C11: writeWebErrorResponse writes, for each declared error variant of the
\* backend, one status and description, the status not being the internal
\* one; for a backend error that is none of the variants it writes the
\* internal-error status; ObjectNameInvalid gets what ObjectNotFound gets;
\* and what a streaming handler answers after a backend failure is what the
\* translator writes for some backend error.
C11_TranslatorTotal ==
    \A p \in Clients :
       /\ \A e \in FsErrors :
             LET r == writeWebErrorResponse(reply[p], e) IN
             /\ r.Status # InternalError.HTTPStatusCode
             /\ r.Status # 0
             /\ r.Body # ""
             /\ r.Body # InternalError.Description
       /\ \A e \in UnknownErrors :
             LET r == writeWebErrorResponse(reply[p], e) IN
             /\ r.Status = InternalError.HTTPStatusCode
             /\ r.Body = InternalError.Description
       /\ writeWebErrorResponse(reply[p], "ObjectNameInvalid")
             = writeWebErrorResponse(reply[p], "ObjectNotFound")
       /\ (pc[p] = "done" /\ method[p] \in HTTPHandlers /\ authed[p] = "ok"
           /\ reply[p].Status # 0)
          => \E e \in FsErrors \cup UnknownErrors : reply[p] = Translated(e)

C11_Witness ==
    \E p \in Clients :
       /\ pc[p] = "done"
       /\ method[p] = "Upload"
       /\ authed[p] = "ok"
       /\ reply[p] = Translated("ObjectNameInvalid")
       /\ reply[p].Status = 404

\* http.StatusForbidden
StatusForbidden == 403

\* C12: an Upload whose header token is invalid, and a Download whose token
\* parameter is invalid, ends at the token check with the fixed response 403
\* "Invalid token", which no lookup of the translator has produced; it has
\* made no call on the backend (no CreateObject, no GetObject) and the
\* backend's objects are as they were.
C12_StreamingForbidden ==
    [][\A p \in Clients :
         (/\ LeavesGate(p)
          /\ method[p] \in HTTPHandlers
          /\ ~Acceptable(tok[p], cred.SecretAccessKey, now))
         => /\ pc'[p] = "done"
            /\ authed'[p] = "rejected"
            /\ reply'[p] = [NoReply EXCEPT !.Status = StatusForbidden,
                                           !.Body = errInvalidToken]
            /\ calls'[p] = NoCalls
            /\ UNCHANGED backend]_vars

C12_Witness ==
    \E p \in Clients :
       /\ pc[p] = "done"
       /\ method[p] = "Download"
       /\ authed[p] = "rejected"
       /\ tok[p] # NoToken
       /\ tok[p].alg \in SigningMethodHMAC
       /\ tok[p].key = cred.SecretAccessKey
       /\ now > tok[p].exp
       /\ reply[p].Status = StatusForbidden
       /\ "o1" \in fsObjects
       /\ calls[p].fs = 0

\* Request p is a Login that returns in this step.
LoginReturns(p) == pc[p] = "login" /\ pc'[p] = "done"

\* The username and password of request p are the active credential.
MatchesActive(p) ==
    args[p].Username = cred.AccessKeyID /\ args[p].Password = cred.SecretAccessKey

\* The reply of a successful Login: a token that is there and verifies under
\* the active secret, and the UI-version stamp.
LoginSucceeds(p) ==
    /\ err'[p] = ""
    /\ reply'[p].Token # NoToken
    /\ isJWTReqAuthenticated(reply'[p].Token, cred, now)
    /\ reply'[p].UIVersion = UIVersion

\* Login fails with "Invalid credentials" and its reply is empty.
LoginRefused(p) ==
    /\ err'[p] = errInvalidCredentials
    /\ reply'[p] = NoReply

\* C13 as stated: a Login whose pair is not the active credential returns
\* "Invalid credentials" and no token, whichever field is wrong; a Login with
\* the active pair returns a token that verifies under the active secret,
\* with the UI-version stamp.
C13_LoginByCredential ==
    [][\A p \in Clients :
         LoginReturns(p)
         => IF MatchesActive(p) THEN LoginSucceeds(p) ELSE LoginRefused(p)]_vars

\* C13, amended: a Login whose pair is not the active credential returns
\* "Invalid credentials" and no token, whichever field is wrong; a Login with
\* the active pair returns a token that verifies under the active secret,
\* with the UI-version stamp, unless GenerateToken fails: then it returns the
\* issuer's error and no token.
C13_LoginUnlessIssuerFails ==
    [][\A p \in Clients :
         LoginReturns(p)
         => IF MatchesActive(p)
            THEN \/ LoginSucceeds(p)
                 \/ /\ err'[p] \notin {"", errInvalidCredentials, errUnauthorized}
                    /\ reply'[p] = NoReply
            ELSE LoginRefused(p)]_vars

C13_Witness ==
    \E p \in Clients :
       /\ pc[p] = "done"
       /\ method[p] = "Login"
       /\ cred = Credential("a2", "s2")
       /\ args[p].Username = "a2"
       /\ args[p].Password = "s2"
       /\ err[p] = ""
       /\ reply[p].Token = GenerateToken(cred, "a2", now)
       /\ reply[p].UIVersion = UIVersion

\* Request p, a call of method m, takes a step of its handler.
StepOf(p, m) == method[p] = m /\ pc[p] # "idle" /\ pc'[p] # pc[p] /\ pc'[p] # "idle"

\* The tokens the gate and Download accept are the same before and after
\* the step.
SameTokensValid ==
    \A t \in Tokens \cup {lastSetAuth.Token} :
       /\ isJWTReqAuthenticated(t, cred, now) = isJWTReqAuthenticated(t, cred', now')
       /\ DownloadAuthenticated(t, cred, now) = DownloadAuthenticated(t, cred', now')

\* C14: no step of a GenerateAuth call changes the active credential or the
\* credential on disk, whatever pair the call draws, and a token that was
\* valid before the step is valid after it.
C14_GenerateAuthInert ==
    [][\A p \in Clients :
         StepOf(p, "GenerateAuth") => (UNCHANGED config /\ SameTokensValid)]_vars

C14_Witness ==
    \E p \in Clients :
       /\ pc[p] = "done"
       /\ method[p] = "GenerateAuth"
       /\ authed[p] = "ok"
       /\ err[p] = ""
       /\ reply[p].AccessKey = "a2"
       /\ reply[p].SecretKey = "s2"
       /\ cred = Credential("a1", "s1")
       /\ saved = cred
       /\ isJWTReqAuthenticated(tok[p], cred, now)

\* Request p, an RPC call, has returned without error.
ReturnedOK(p) == pc[p] = "done" /\ method[p] \in RPCMethods /\ err[p] = ""

\* C15: the reply of every RPC call that returned without error, whatever
\* the method, has its UIVersion field set to miniobrowser.UIVersion.
C15_RepliesStamped ==
    \A p \in Clients : ReturnedOK(p) => reply[p].UIVersion = UIVersion

C15_Witness ==
    \E p \in Clients :
       /\ ReturnedOK(p)
       /\ method[p] = "ListObjects"
       /\ calls[p].fs = 2
       /\ Len(reply[p].Objects) = 3
       /\ reply[p].UIVersion = UIVersion

\* Request p calls the storage backend in this step.
BackendCall(p) == calls'[p].fs = calls[p].fs + 1

\* The call of the storage backend that request p makes in this step fails.
BackendFails(p) ==
    CASE method[p] = "ListObjects" -> fsListing[calls[p].fs + 1].err # ""
      [] method[p] = "MakeBucket" ->
           \E i \in 1..Len(fsBuckets) : fsBuckets[i].Name = args[p].BucketName
      [] method[p] \in {"RemoveObject", "Download"} -> args[p].ObjectName \notin fsObjects
      [] method[p] = "Upload" -> reply'[p].Status # 0
      [] OTHER -> err'[p] # ""

\* Request p ends in this step with an error: an RPC error, or an HTTP
\* response with an error status and nothing of the object in it.
EndsWithError(p) ==
    /\ pc'[p] = "done"
    /\ IF method[p] \in HTTPHandlers
       THEN reply'[p].Status >= 400
       ELSE err'[p] # ""

\* C16: a request that calls the storage backend has made no call before,
\* unless it is a ListObjects whose page before was delivered and truncated;
\* if the call fails the request ends in the same step with an error, and a
\* request that has ended makes no call; a ListObjects that received a failed
\* page has ended with an error, not with a reply.
C16_NoRetry ==
    /\ [][\A p \in Clients :
            /\ calls'[p].fs \in {0, calls[p].fs, calls[p].fs + 1}
            /\ BackendCall(p)
               => /\ pc[p] = "body"
                  /\ calls[p].fs > 0
                     => /\ method[p] = "ListObjects"
                        /\ fsListing[calls[p].fs].err = ""
                        /\ fsListing[calls[p].fs].IsTruncated
                  /\ BackendFails(p) => EndsWithError(p)
            /\ pc[p] = "done" => ~BackendCall(p)]_vars
    /\ [](\A p \in Clients :
            /\ method[p] # "ListObjects" => calls[p].fs <= 1
            /\ (method[p] = "ListObjects"
                /\ \E i \in 1..calls[p].fs : fsListing[i].err # "")
               => /\ pc[p] = "done"
                  /\ err[p] # ""
                  /\ reply[p].UIVersion = ""
                  /\ fsListing[calls[p].fs].err # "")

C16_Witness ==
    \E p \in Clients :
       /\ pc[p] = "done"
       /\ method[p] = "ListObjects"
       /\ calls[p].fs = 2
       /\ fsListing[2].err # ""
       /\ err[p] = fsListing[2].err

\* Request p reads the active credential for its token check in this step.
ReadsForCheck(p) == pc[p] = "initJWT" /\ pc'[p] = "auth"

\* Some request is in the middle of a SetAuth: it has set the credential and
\* has not returned.
SetAuthInFlight(q) == method[q] = "SetAuth" /\ pc[q] \in {"save", "reauth", "issue"}

\* C17: a token check reads the active credential once, as a whole; what it
\* has read stays as it is while SetAuth calls of other requests change the
\* active credential; and its verdict is the verdict of checking the token
\* against the secret it has read, which is the previous secret if a SetAuth
\* came in between and the new one otherwise.
C17_CheckAgainstOneSecret ==
    [][\A p \in Clients :
         /\ ReadsForCheck(p) => jwt'[p] = cred
         /\ (pc[p] = "auth" /\ pc'[p] = "auth") => jwt'[p] = jwt[p]
         /\ LeavesGate(p)
            => (authed'[p] = "ok") = Acceptable(tok[p], jwt[p].SecretAccessKey, now)]_vars

C17_Witness ==
    \E p, q \in Clients :
       /\ p # q
       /\ SetAuthInFlight(q)
       /\ method[p] = "GetAuth"
       /\ pc[p] = "body"
       /\ authed[p] = "ok"
       /\ tok[p].key # cred.SecretAccessKey
       /\ cred.SecretAccessKey = args[q].SecretKey

\* SetAuth request p has returned an error.
SetAuthFailed(p) == pc[p] = "done" /\ method[p] = "SetAuth" /\ err[p] # ""

\* C18: when a SetAuth has returned an error, whichever it is, the active
\* credential is the one that was active when the request came in, and every
\* token that verifies under that one verifies now.
C18_FailedSetAuthLeavesCredential ==
    \A p \in Clients :
       SetAuthFailed(p)
       => /\ cred = credBefore[p]
          /\ \A t \in Tokens :
                isJWTReqAuthenticated(t, credBefore[p], now)
                => isJWTReqAuthenticated(t, cred, now)

\* SetAuth request p has returned its reply.
SetAuthSucceeded(p) == pc[p] = "done" /\ method[p] = "SetAuth" /\ err[p] = ""

\* C19: whatever other SetAuth calls run at the same time, the token a
\* SetAuth returns has the access key of that call as its subject and is
\* HMAC-signed with the secret key of that call.
C19_TokenBoundToOwnPair ==
    \A p \in Clients :
       SetAuthSucceeded(p)
       => /\ reply[p].Token # NoToken
          /\ reply[p].Token.alg \in SigningMethodHMAC
          /\ reply[p].Token.sub = args[p].AccessKey
          /\ reply[p].Token.key = args[p].SecretKey

C19_Witness ==
    \E p, q \in Clients :
       /\ p # q
       /\ SetAuthSucceeded(p)
       /\ SetAuthInFlight(q)
       /\ args[q].SecretKey # args[p].SecretKey
       /\ cred = Credential(args[q].AccessKey, args[q].SecretKey)
       /\ credBefore[q] # Credential(args[p].AccessKey, args[p].SecretKey)
       /\ reply[p].Token.key = args[p].SecretKey

====
